---- MODULE Spec2Model ----
(***************************************************************************)
(* Model of src/main.py (OpenAlex Data Analyzer): reconstruct_abstract,    *)
(* get_country_name, the per-work normalization inside fetch_openalex_data *)
(* and the cursor-driven fetch loop followed by export and plotting.       *)
(***************************************************************************)
EXTENDS Integers, Sequences, FiniteSets, TLC

VARIABLES
    pc,             \* control position of fetch_openalex_data
    works_data,     \* the accumulator list (main.py:140)
    cursor,         \* the cursor variable (main.py:141,195)
    requests,       \* number of requests.get calls issued so far
    received,       \* history: raw works of the pages received with a success status
    failedAt,       \* history: index of the request that failed (0: none)
    endedBy,        \* history: why the while loop was left
    oversize,       \* history: some response carried more than per_page results
    df_export,      \* the exported table (main.py:212-214), <<>> before export
    outputs,        \* notices printed / files written after the loop
    hashOrder,      \* iteration order of Python sets of strings in this process
    work,           \* input of one normalization (normalization specification)
    record,         \* output of one normalization
    inverted_index, \* input of reconstruct_abstract (decoder specification)
    word_index,     \* the sorted (pos, word) list of reconstruct_abstract
    abstract_text   \* result of reconstruct_abstract

vars == <<pc, works_data, cursor, requests, received, failedAt, endedBy, oversize,
          df_export, outputs, hashOrder, work, record, inverted_index, word_index,
          abstract_text>>

-----------------------------------------------------------------------------
(* Python values: a dictionary key is absent, maps to None, or maps to a value *)

Absent(d) == [st |-> "absent", v |-> d]
Null(d)   == [st |-> "null", v |-> d]
Val(x)    == [st |-> "set", v |-> x]

\* dict.get(key, default): the default only replaces an absent key, not a None
Get(f, d) == IF f.st = "absent" THEN Val(d) ELSE f

\* Python truthiness of an optional string / sequence
TruthyStr(f) == f.st = "set" /\ f.v # ""
TruthySeq(f) == f.st = "set" /\ f.v # <<>>

\* sep.join(list): the string as its sequence of tokens, separators included
RECURSIVE Join(_, _)
Join(s, sep) ==
    IF s = <<>> THEN <<>>
    ELSE IF Len(s) = 1 THEN <<s[1]>>
    ELSE <<s[1], sep>> \o Join(Tail(s), sep)

\* the entries of a joined string (str.split(sep))
Split(toks) == [i \in 1..((Len(toks) + 1) \div 2) |-> toks[2 * i - 1]]

Range(s) == {s[i] : i \in 1..Len(s)}
NoDuplicates(s) == \A i, j \in 1..Len(s) : i # j => s[i] # s[j]

RECURSIVE Flatten(_)
Flatten(ss) == IF ss = <<>> THEN <<>> ELSE Head(ss) \o Flatten(Tail(ss))

RECURSIVE SeqsUpTo(_, _)
SeqsUpTo(S, n) ==
    IF n = 0 THEN {<<>>}
    ELSE LET shorter == SeqsUpTo(S, n - 1)
         IN  shorter \cup {Append(s, x) : s \in {t \in shorter : Len(t) = n - 1}, x \in S}

-----------------------------------------------------------------------------
(* reconstruct_abstract, main.py:71-82 *)

MaxWords == 2       \* entries of an inverted index
MaxPos == 1         \* token positions are 0..MaxPos

\* the words, in ascending str order
WordOrder == <<"a", "b", "c">>
Words == Range(WordOrder)
WordRank(w) == CHOOSE i \in 1..Len(WordOrder) : WordOrder[i] = w

\* Python's < on (pos, word) tuples: first component, then the second
TupleLessByPos(p, q) == p.pos < q.pos
TupleLess(p, q) ==
    \/ p.pos < q.pos
    \/ p.pos = q.pos /\ WordRank(p.word) < WordRank(q.word)

\* list.sort(): stable, ascending by TupleLess
RECURSIVE InsertSorted(_, _)
InsertSorted(x, s) ==
    IF s = <<>> THEN <<x>>
    ELSE IF TupleLess(x, Head(s)) THEN <<x>> \o s
    ELSE <<Head(s)>> \o InsertSorted(x, Tail(s))

RECURSIVE Sort(_)
Sort(s) == IF s = <<>> THEN <<>> ELSE InsertSorted(s[Len(s)], Sort(SubSeq(s, 1, Len(s) - 1)))

\* the nested for loops of main.py:78-80, in the mapping's insertion order
PairsOf(index) ==
    Flatten([i \in 1..Len(index) |->
                [j \in 1..Len(index[i].positions) |->
                    [pos |-> index[i].positions[j], word |-> index[i].word]]])

SortedPairs(inv) == IF ~TruthySeq(inv) THEN <<>> ELSE Sort(PairsOf(inv.v))

reconstruct_abstract(inv) == Join([i \in 1..Len(SortedPairs(inv)) |-> SortedPairs(inv)[i].word], " ")

\* the position lists of a word: up to two positions, in any order, repeats allowed
PositionLists == SeqsUpTo(0..MaxPos, 2)

Indices ==
    {ix \in SeqsUpTo([word : Words, positions : PositionLists], MaxWords) :
        \A i, j \in 1..Len(ix) : i # j => ix[i].word # ix[j].word}

InvertedIndices == {Absent(<<>>), Null(<<>>)} \cup {Val(ix) : ix \in Indices}

-----------------------------------------------------------------------------
(* get_country_name, main.py:84-92 *)

\* the part of pycountry's alpha_2 table the model uses
CountryTable == [c \in {"US"} |-> "United States"]

get_country_name(code) ==
    IF ~TruthyStr(code) THEN "Unknown"
    ELSE IF code.v \in DOMAIN CountryTable THEN CountryTable[code.v]
    ELSE code.v

-----------------------------------------------------------------------------
(* Raw works and their normalization, main.py:154-193 *)

MaxAuthorships == 2     \* authorship entries of one work

InstitutionNames == {"MIT", "ETH"}
CountryNames == {"United States", "ZZ"}

Orderings(S) == {p \in SeqsUpTo(S, Cardinality(S)) : Len(p) = Cardinality(S) /\ Range(p) = S}

\* list(set(xs)) enumerates the distinct strings of xs in an order fixed by the
\* process's string hashing.  No set mixes institution and country names, so an
\* order is given by one order of each.
HashOrders == {o1 \o o2 : o1 \in Orderings(InstitutionNames), o2 \in Orderings(CountryNames)}

ListOfSetIdentity(xs, order) == xs
ListOfSet(xs, order) == SelectSeq(order, LAMBDA x : x \in Range(xs))

NoSource == [display_name |-> Absent("")]
NoLocation == [source |-> Absent(NoSource)]
NoAuthor == [display_name |-> Absent("")]

Named(n) == [display_name |-> Val(n)]
Inst(name, cc) == [display_name |-> name, country_code |-> cc]
Authorship(author, insts) == [author |-> author, institutions |-> insts]

\* the authorships / institutions / concepts a loop iterates over
Authorships(w) == Get(w.authorships, <<>>)
Institutions(a) == Get(a.institutions, <<>>)
Concepts(w) == Get(w.concepts, <<>>)

\* main.py:161-162: the subscript ['display_name'] of a truthy source
SourceRaises(w) ==
    /\ w.primary_location.st = "set"
    /\ w.primary_location.v.source.st = "set"
    /\ w.primary_location.v.source.v.display_name.st = "absent"

\* main.py:169-176, for one authorship
AuthorshipRaises(a) ==
    \/ a.author.st # "set"                              \* KeyError / None['display_name']
    \/ a.author.v.display_name.st = "absent"            \* KeyError
    \/ Institutions(a).st = "null"                      \* for inst in None
    \/ \E j \in 1..Len(Institutions(a).v) :
          Institutions(a).v[j].display_name.st = "absent"

\* main.py:187-188: "; ".join of a list holding None
JoinRaises(w) ==
    \E i \in 1..Len(Authorships(w).v) :
        LET a == Authorships(w).v[i]
        IN  \/ a.author.v.display_name.st = "null"
            \/ \E j \in 1..Len(Institutions(a).v) :
                  Institutions(a).v[j].display_name.st = "null"

\* main.py:179,192
ConceptsRaise(w) ==
    \/ Concepts(w).st = "null"
    \/ \E i \in 1..Len(Concepts(w).v) : Concepts(w).v[i].display_name.st # "set"

\* the body of the for loop raises before works_data.append
NormalizeRaises(w) ==
    \/ SourceRaises(w)
    \/ Authorships(w).st = "null"
    \/ \E i \in 1..Len(Authorships(w).v) : AuthorshipRaises(Authorships(w).v[i])
    \/ ConceptsRaise(w)
    \/ JoinRaises(w)

source_name(w) ==
    IF w.primary_location.st = "set" /\ w.primary_location.v.source.st = "set"
    THEN w.primary_location.v.source.v.display_name
    ELSE Val("Unknown")

authors_list(w) ==
    [i \in 1..Len(Authorships(w).v) |-> Authorships(w).v[i].author.v.display_name.v]

institutions_list(w) ==
    Flatten([i \in 1..Len(Authorships(w).v) |->
        LET insts == Institutions(Authorships(w).v[i]).v
        IN  [j \in 1..Len(insts) |-> insts[j].display_name.v]])

countries_list(w) ==
    Flatten([i \in 1..Len(Authorships(w).v) |->
        LET insts == Institutions(Authorships(w).v[i]).v
        IN  Flatten([j \in 1..Len(insts) |->
                IF TruthyStr(insts[j].country_code)
                THEN <<get_country_name(insts[j].country_code)>>
                ELSE <<>>])])

concepts(w) == [i \in 1..Len(Concepts(w).v) |-> Concepts(w).v[i].display_name.v]

\* the dictionary appended at main.py:181-193 (defined when nothing raised)
NormalizeRecord(w, order) ==
    [title            |-> Get(w.title, ""),
     publication_year |-> IF w.publication_year.st = "absent" THEN Null(0) ELSE w.publication_year,
     cited_by_count   |-> Get(w.cited_by_count, 0),
     source_name      |-> source_name(w),
     authors          |-> authors_list(w),
     authors_str      |-> Join(authors_list(w), "; "),
     institutions     |-> Join(ListOfSet(institutions_list(w), order), "; "),
     countries        |-> countries_list(w),
     countries_str    |-> Join(ListOfSet(countries_list(w), order), "; "),
     abstract         |-> reconstruct_abstract(w.abstract_inverted_index),
     keywords         |-> Join(concepts(w), "; ")]

(* the works the normalization is applied to *)

MIT_US == Inst(Val("MIT"), Val("US"))
ETH_US == Inst(Val("ETH"), Val("US"))
ETH_ZZ == Inst(Val("ETH"), Val("ZZ"))
MIT_NoCode == Inst(Val("MIT"), Absent(""))

InstitutionLists ==
    {Absent(<<>>), Val(<<MIT_US>>), Val(<<MIT_US, ETH_US>>), Val(<<ETH_ZZ, MIT_US>>),
     Val(<<MIT_NoCode, ETH_ZZ>>), Val(<<Inst(Null(""), Val("US"))>>)}

Authors == {Val(Named("Ann")), Val(Named("Bob")), Null(NoAuthor), Val([display_name |-> Null("")])}

AuthorshipLists == SeqsUpTo([author : Authors, institutions : InstitutionLists], MaxAuthorships)

SomeIndex == Val(<<[word |-> "b", positions |-> <<0>>], [word |-> "a", positions |-> <<1>>]>>)

\* a work with every field present
FullWork(t) ==
    [title |-> Val(t), publication_year |-> Val(2020), cited_by_count |-> Val(7),
     primary_location |-> Val([source |-> Val(Named("Nature"))]),
     authorships |-> Val(<<Authorship(Val(Named("Ann")), Val(<<MIT_US>>)),
                           Authorship(Val(Named("Bob")), Val(<<MIT_US>>))>>),
     abstract_inverted_index |-> SomeIndex,
     concepts |-> Val(<<Named("AI")>>)]

\* a work with every optional field absent
BareWork ==
    [title |-> Absent(""), publication_year |-> Absent(0), cited_by_count |-> Absent(0),
     primary_location |-> Absent(NoLocation),
     authorships |-> Absent(<<>>),
     abstract_inverted_index |-> Absent(<<>>),
     concepts |-> Absent(<<>>)]

\* a work whose only authorship has a null author object
NullAuthorWork == [BareWork EXCEPT !.title = Val("T3"),
                                   !.authorships = Val(<<Authorship(Null(NoAuthor), Absent(<<>>))>>)]

NormWorks ==
    {[FullWork("T1") EXCEPT !.authorships = Val(a)] : a \in AuthorshipLists}
    \cup {[FullWork("T1") EXCEPT !.authorships = a] : a \in {Absent(<<>>), Null(<<>>)}}
    \cup {[FullWork("T1") EXCEPT !.title = t] : t \in {Absent(""), Null("")}}
    \cup {[FullWork("T1") EXCEPT !.primary_location = l] :
            l \in {Absent(NoLocation), Null(NoLocation), Val([source |-> Absent(NoSource)]),
                   Val([source |-> Null(NoSource)]), Val([source |-> Val(NoSource)]),
                   Val([source |-> Val([display_name |-> Null("")])])}}
    \cup {[FullWork("T1") EXCEPT !.concepts = c] :
            c \in {Absent(<<>>), Null(<<>>), Val(<<[display_name |-> Absent("")]>>),
                   Val(<<[display_name |-> Null("")]>>)}}
    \cup {[FullWork("T1") EXCEPT !.abstract_inverted_index = x] : x \in {Absent(<<>>), Null(<<>>)}}
    \cup {BareWork, NullAuthorWork}

-----------------------------------------------------------------------------
(* The fetch loop, export and plotting of fetch_openalex_data, main.py:140-218 *)

\* The program's record limit is 2000 (main.py:198) and its page size 200
\* (main.py:134); the model keeps their roles at a scale TLC can enumerate.
DemoLimit == 3
per_page == 2

\* a server may ignore per_page: responses carry up to MaxResults works
MaxResults == per_page + 1

PageWorks == {FullWork("T1"), BareWork, NullAuthorWork}

NoMeta == [next_cursor |-> Absent("")]
Metas == {Absent(NoMeta), Val(NoMeta), Val([next_cursor |-> Null("")]),
          Val([next_cursor |-> Val("c1")])}

\* the JSON bodies of the success responses
Pages ==
    [results : {Absent(<<>>), Null(<<>>)} \cup {Val(r) : r \in SeqsUpTo(PageWorks, MaxResults)},
     meta : Metas]

Init ==
    /\ pc = "loop"
    /\ works_data = <<>>
    /\ cursor = Val("*")
    /\ requests = 0
    /\ received = <<>>
    /\ failedAt = 0
    /\ endedBy = "none"
    /\ oversize = FALSE
    /\ df_export = <<>>
    /\ outputs = {}
    /\ hashOrder \in HashOrders
    /\ work = <<>> /\ record = <<>>
    /\ inverted_index = Absent(<<>>) /\ word_index = <<>> /\ abstract_text = <<>>

\* main.py:144-146: the next request goes out, carrying the current cursor
SendRequest ==
    /\ pc = "loop"
    /\ requests' = requests + 1
    /\ pc' = "wait"
    /\ UNCHANGED <<works_data, cursor, received, failedAt, endedBy, oversize, df_export,
                   outputs, hashOrder, work, record, inverted_index, word_index,
                   abstract_text>>

\* main.py:202-204: the except clause prints and breaks
FailAndRetry(error) ==
    /\ failedAt' = requests
    /\ endedBy' = "none"
    /\ pc' = "loop"
    /\ UNCHANGED <<works_data, cursor, requests, received, oversize, df_export, outputs,
                   hashOrder, work, record, inverted_index, word_index, abstract_text>>

FailRequest(error) ==
    /\ failedAt' = requests
    /\ endedBy' = error
    /\ pc' = "export"
    /\ UNCHANGED <<works_data, cursor, requests, received, oversize, df_export, outputs,
                   hashOrder, work, record, inverted_index, word_index, abstract_text>>

\* main.py:146: requests.get raises (connection error, timeout)
RequestRaises ==
    /\ pc = "wait"
    /\ FailRequest("request_raised")

\* main.py:147-148: raise_for_status raises on a 4xx/5xx status, r.json() on a bad body
StatusNotOk ==
    /\ pc = "wait"
    /\ FailRequest("bad_status")

\* main.py:150-152: no results, the loop is left
ReceiveEmptyPageAndContinue ==
    /\ pc = "wait"
    /\ \E page \in Pages :
          /\ ~TruthySeq(Get(page.results, <<>>))
          /\ pc' = "loop"
          /\ UNCHANGED endedBy
    /\ UNCHANGED <<works_data, cursor, requests, received, failedAt, oversize, df_export,
                   outputs, hashOrder, work, record, inverted_index, word_index,
                   abstract_text>>

ReceiveEmptyPage ==
    /\ pc = "wait"
    /\ \E page \in Pages :
          /\ ~TruthySeq(Get(page.results, <<>>))
          /\ endedBy' = "no_results"
          /\ pc' = "export"
    /\ UNCHANGED <<works_data, cursor, requests, received, failedAt, oversize, df_export,
                   outputs, hashOrder, work, record, inverted_index, word_index,
                   abstract_text>>

\* main.py:154-193: the works before the first one whose normalization raises
NormalizedPrefix(results) ==
    LET bad == {i \in 1..Len(results) : NormalizeRaises(results[i])}
        n == IF bad = {} THEN Len(results) ELSE (CHOOSE i \in bad : \A j \in bad : i <= j) - 1
    IN  [i \in 1..n |-> NormalizeRecord(results[i], hashOrder)]

\* list.append, once per record
AppendAllAtFront(acc, recs) == recs \o acc
AppendAll(acc, recs) == acc \o recs

\* main.py:198
LimitReachedStrictly(n) == n > DemoLimit
LimitReachedAPageLate(n) == n >= DemoLimit + per_page
LimitReached(n) == n >= DemoLimit

\* main.py:195: data['meta']['next_cursor'] raises on a missing or null meta
\* and on a missing next_cursor key
NextCursorRaises(page) == page.meta.st # "set" \/ page.meta.v.next_cursor.st = "absent"

\* main.py:154-204 for a response with results
ReceiveWorks ==
    /\ pc = "wait"
    /\ \E page \in Pages :
          /\ TruthySeq(Get(page.results, <<>>))
          /\ LET results == page.results.v
                 recs == NormalizedPrefix(results)
                 acc == AppendAll(works_data, recs)
             IN  /\ works_data' = acc
                 /\ received' = received \o results
                 /\ oversize' = (oversize \/ Len(results) > per_page)
                 /\ IF Len(recs) < Len(results)
                    THEN \* a work raised: except clause, break
                         /\ endedBy' = "work_raised"
                         /\ pc' = "export"
                         /\ UNCHANGED cursor
                    ELSE IF NextCursorRaises(page)
                    THEN /\ endedBy' = "cursor_raised"
                         /\ pc' = "export"
                         /\ UNCHANGED cursor
                    ELSE /\ cursor' = page.meta.v.next_cursor
                         /\ IF LimitReached(Len(acc))
                            THEN endedBy' = "limit" /\ pc' = "export"
                            ELSE UNCHANGED endedBy /\ pc' = "loop"
    /\ UNCHANGED <<requests, failedAt, df_export, outputs, hashOrder, work, record,
                   inverted_index, word_index, abstract_text>>

\* main.py:207-208: df.empty
FrameEmptyOrFailed == works_data = <<>> \/ failedAt # 0
FrameEmpty == works_data = <<>>

\* main.py:208-210: the no-data notice, and return
NoPapers ==
    /\ pc = "export"
    /\ FrameEmpty
    /\ outputs' = outputs \cup {"no_papers_notice"}
    /\ pc' = "done"
    /\ UNCHANGED <<works_data, cursor, requests, received, failedAt, endedBy, oversize,
                   df_export, hashOrder, work, record, inverted_index, word_index,
                   abstract_text>>

\* df.drop(columns=['authors', 'countries']), main.py:212
DropListColumns(r) ==
    [k \in DOMAIN r \ {"authors", "countries"} |-> r[k]]

\* main.py:212-215: the CSV export
ExportCsv ==
    /\ pc = "export"
    /\ ~FrameEmpty
    /\ df_export' = [i \in 1..Len(works_data) |-> DropListColumns(works_data[i])]
    /\ outputs' = outputs \cup {"openalex_papers.csv"}
    /\ pc' = "plots"
    /\ UNCHANGED <<works_data, cursor, requests, received, failedAt, endedBy, oversize,
                   hashOrder, work, record, inverted_index, word_index, abstract_text>>

\* the figures generate_plots saves for a frame, main.py:220-310
Figures(df) ==
    LET rows == 1..Len(df)
        someYear == \E i \in rows : df[i].publication_year.st = "set"
        \* a None year beside numeric years is NaN in the frame, which is truthy
        yearTruthy(i) == IF df[i].publication_year.st = "set"
                         THEN df[i].publication_year.v # 0
                         ELSE someYear
    IN  {"5_impact_timeline_scatter.png"}
        \cup (IF someYear THEN {"1_publication_trend.png"} ELSE {})
        \cup (IF \E i \in rows : df[i].countries # <<>> THEN {"2_top_countries.png"} ELSE {})
        \cup (IF \E i \in rows : df[i].authors # <<>> THEN {"3_top_researchers.png"} ELSE {})
        \cup (IF \E i \in rows : df[i].source_name.st = "set" THEN {"4_top_journals.png"} ELSE {})
        \cup (IF \E i \in rows : yearTruthy(i) /\ df[i].countries # <<>>
              THEN {"6_country_year_heatmap.png"} ELSE {"no_heatmap_notice"})

\* main.py:218: generate_plots(df, output_dir)
GeneratePlots ==
    /\ pc = "plots"
    /\ outputs' = outputs \cup Figures(works_data) \cup {"all_plots_notice"}
    /\ pc' = "done"
    /\ UNCHANGED <<works_data, cursor, requests, received, failedAt, endedBy, oversize,
                   df_export, hashOrder, work, record, inverted_index, word_index,
                   abstract_text>>

Next ==
    \/ SendRequest
    \/ RequestRaises
    \/ StatusNotOk
    \/ ReceiveEmptyPage
    \/ ReceiveWorks
    \/ NoPapers
    \/ ExportCsv
    \/ GeneratePlots

Spec == Init /\ [][Next]_vars

\* a request in flight comes back: with a response or with a failure
Responds == pc = "wait" /\ pc' \in {"loop", "export"}

\* The loop runs on while it has a request to send (the program is sequential
\* and nothing else is scheduled), and every request comes back or fails.
LiveSpec == Spec /\ WF_vars(SendRequest) /\ WF_pc(Responds)

-----------------------------------------------------------------------------
(* Properties of the fetch loop *)

InLoop == pc \in {"loop", "wait"}
Failed == failedAt # 0

\* C1: once request k has failed, no further request goes out, the loop is
\* left through the except clause (nothing propagates), and the accumulator
\* holds exactly the normalized works of the pages received before, in order.
C1_FailureKeepsEarlierPages ==
    Failed =>
        /\ ~InLoop
        /\ requests = failedAt
        /\ endedBy \in {"request_raised", "bad_status"}
        /\ Len(works_data) = Len(received)
        /\ \A i \in 1..Len(received) :
              /\ ~NormalizeRaises(received[i])
              /\ works_data[i] = NormalizeRecord(received[i], hashOrder)

\* the second request failed after a first page of two different works
C1_Witness ==
    /\ failedAt = 2
    /\ Len(works_data) = 2
    /\ works_data[1] # works_data[2]
    /\ pc = "done"

\* C2 (as claimed): the accumulated count never exceeds the limit
C2_NeverAboveLimit == Len(works_data) <= DemoLimit

\* C2 (as amended): the count is below the limit whenever the loop is about to
\* issue or has issued a request, and while responses carry at most per_page
\* results it never exceeds limit - 1 + per_page.
C2_AboveLimitByLessThanAPage ==
    /\ InLoop => Len(works_data) < DemoLimit
    /\ ~oversize => Len(works_data) <= DemoLimit - 1 + per_page

\* the loop was left with the limit overshot by the most a page allows
C2_Witness ==
    /\ ~oversize
    /\ endedBy = "limit"
    /\ Len(works_data) = DemoLimit - 1 + per_page

\* C3: no request is outstanding with the count at or above the limit, and when
\* every response carried at most per_page results the loop ends with fewer
\* than limit + per_page records.
C3_NoRequestAtLimit ==
    /\ pc = "wait" => Len(works_data) < DemoLimit
    /\ (~oversize /\ ~InLoop) => Len(works_data) < DemoLimit + per_page

\* the loop stopped at the limit after several requests, within one page of it
C3_Witness ==
    /\ ~oversize
    /\ endedBy = "limit"
    /\ requests >= 2
    /\ Len(works_data) > DemoLimit
    /\ pc = "plots"

\* C4 (as claimed): no request goes out carrying a null cursor
C4_NullCursorEndsPagination == cursor.st = "null" => pc # "wait"

\* C5: the loop issues at most as many requests as the record limit
C5_RequestsBounded == requests <= DemoLimit

\* C5: the fetch loop is eventually left, whatever the server answers
C5_LoopTerminates == <>(~InLoop) /\ []C5_RequestsBounded

\* the limit ended a run in which no page was empty and no request failed
C5_Witness ==
    /\ endedBy = "limit"
    /\ requests = DemoLimit
    /\ pc = "done"

\* C6 (as claimed): every work of a received page yields one record, and no
\* work ends the loop
C6_EveryWorkYieldsARecord ==
    /\ Len(works_data) = Len(received)
    /\ endedBy # "work_raised"

\* C7: after the loop, export and plotting run exactly when a record was
\* accumulated; otherwise only the no-data notice is emitted.
C7_ExportIffRecords ==
    pc = "done" =>
        /\ works_data = <<>> =>
              /\ outputs = {"no_papers_notice"}
              /\ df_export = <<>>
        /\ works_data # <<>> =>
              /\ "no_papers_notice" \notin outputs
              /\ "openalex_papers.csv" \in outputs
              /\ "all_plots_notice" \in outputs
              /\ "5_impact_timeline_scatter.png" \in outputs
              /\ Len(df_export) = Len(works_data)

\* a failed request after a received page, and the run exported and plotted
C7_Witness ==
    /\ pc = "done"
    /\ Failed
    /\ works_data # <<>>
    /\ "openalex_papers.csv" \in outputs
    /\ "all_plots_notice" \in outputs

IsPrefix(s, t) == Len(s) <= Len(t) /\ \A i \in 1..Len(s) : s[i] = t[i]

\* C8: each step leaves the accumulator a prefix of its new value, and the
\* steps after the loop (export, plotting) leave it unchanged.
C8_AppendOnly ==
    [][/\ IsPrefix(works_data, works_data')
       /\ ~InLoop => works_data' = works_data]_vars

\* the accumulator grew over two pages of different works and was exported and plotted
C8_Witness ==
    /\ pc = "done"
    /\ requests >= 3
    /\ Len(works_data) >= 2
    /\ works_data[1] # works_data[2]
    /\ "all_plots_notice" \in outputs

-----------------------------------------------------------------------------
(* Specification of the decoder alone *)

\* the fetch loop's variables, where only a function is exercised
Idle ==
    /\ works_data = <<>> /\ cursor = Val("*") /\ requests = 0 /\ received = <<>>
    /\ failedAt = 0 /\ endedBy = "none" /\ oversize = FALSE /\ df_export = <<>>
    /\ outputs = {}

InitAbstract ==
    /\ pc = "decode"
    /\ Idle
    /\ hashOrder = <<>> /\ work = <<>> /\ record = <<>>
    /\ inverted_index \in InvertedIndices
    /\ word_index = <<>>
    /\ abstract_text = <<>>

Decode ==
    /\ pc = "decode"
    /\ word_index' = SortedPairs(inverted_index)
    /\ abstract_text' = reconstruct_abstract(inverted_index)
    /\ pc' = "decoded"
    /\ UNCHANGED <<works_data, cursor, requests, received, failedAt, endedBy, oversize,
                   df_export, outputs, hashOrder, work, record, inverted_index>>

NextAbstract == Decode

SpecAbstract == InitAbstract /\ [][NextAbstract]_vars

-----------------------------------------------------------------------------
(* Properties of reconstruct_abstract *)

\* how often the pair (pos, word) occurs in the mapping / in the sorted list
OccursInIndex(ix, p) ==
    Cardinality({<<i, j>> \in (1..Len(ix)) \X (1..2) :
                    /\ j <= Len(ix[i].positions)
                    /\ ix[i].word = p.word
                    /\ ix[i].positions[j] = p.pos})
OccursInList(s, p) == Cardinality({i \in 1..Len(s) : s[i] = p})

AllPairs == [pos : 0..MaxPos, word : Words]
InputIndex == IF TruthySeq(inverted_index) THEN inverted_index.v ELSE <<>>
InsertionIdx(w) == CHOOSE i \in 1..Len(InputIndex) : InputIndex[i].word = w

\* one emission per (word, position) pair, space-joined
OneEmissionPerPair ==
    /\ \A p \in AllPairs : OccursInList(word_index, p) = OccursInIndex(InputIndex, p)
    /\ Split(abstract_text) = [i \in 1..Len(word_index) |-> word_index[i].word]
    /\ Len(abstract_text) = IF word_index = <<>> THEN 0 ELSE 2 * Len(word_index) - 1
    /\ \A k \in 1..Len(abstract_text) : k % 2 = 0 => abstract_text[k] = " "

\* C9 (as amended): reconstruct_abstract returns the space-joined words, one
\* emission per (word, position) pair, in ascending position; words sharing a
\* position come in ascending order of the words themselves.
C9_SortedByPosThenWord ==
    pc = "decoded" =>
        /\ OneEmissionPerPair
        /\ \A i, j \in 1..Len(word_index) : i < j =>
              \/ word_index[i].pos < word_index[j].pos
              \/ /\ word_index[i].pos = word_index[j].pos
                 /\ WordRank(word_index[i].word) <= WordRank(word_index[j].word)

\* C9 (as claimed): words sharing a position come in the mapping's insertion order
C9_TiesByInsertionOrder ==
    pc = "decoded" =>
        /\ OneEmissionPerPair
        /\ \A i, j \in 1..Len(word_index) : i < j =>
              \/ word_index[i].pos < word_index[j].pos
              \/ /\ word_index[i].pos = word_index[j].pos
                 /\ InsertionIdx(word_index[i].word) <= InsertionIdx(word_index[j].word)

\* a decoded index in which a later-inserted, smaller word shares a position
\* with an earlier-inserted one, and some word has two positions
C9_Witness ==
    /\ pc = "decoded"
    /\ Len(InputIndex) = 2
    /\ WordRank(InputIndex[2].word) < WordRank(InputIndex[1].word)
    /\ Len(InputIndex[1].positions) = 2
    /\ \E j \in 1..Len(InputIndex[2].positions) : InputIndex[2].positions[j] = 0
    /\ Len(abstract_text) >= 5

-----------------------------------------------------------------------------
(* Specification of the normalization of one work alone *)

InitNormalize ==
    /\ pc = "normalize"
    /\ Idle
    /\ hashOrder \in HashOrders
    /\ work \in NormWorks
    /\ record = <<>>
    /\ inverted_index = Absent(<<>>) /\ word_index = <<>> /\ abstract_text = <<>>

\* one pass through the body of the for loop, main.py:154-193
NormalizeAppends ==
    /\ pc = "normalize"
    /\ ~NormalizeRaises(work)
    /\ record' = <<NormalizeRecord(work, hashOrder)>>
    /\ pc' = "normalized"
    /\ UNCHANGED <<works_data, cursor, requests, received, failedAt, endedBy, oversize,
                   df_export, outputs, hashOrder, work, inverted_index, word_index,
                   abstract_text>>

NormalizeThrows ==
    /\ pc = "normalize"
    /\ NormalizeRaises(work)
    /\ pc' = "raised"
    /\ UNCHANGED <<works_data, cursor, requests, received, failedAt, endedBy, oversize,
                   df_export, outputs, hashOrder, work, record, inverted_index, word_index,
                   abstract_text>>

NextNormalize == NormalizeAppends \/ NormalizeThrows

SpecNormalize == InitNormalize /\ [][NextNormalize]_vars

\* the (name, country code) pairs of the institutions of the work, in source order
SourceInstitutions ==
    Flatten([i \in 1..Len(Authorships(work).v) |-> Institutions(Authorships(work).v[i]).v])

====
